---- MODULE Spec2Model ----
(***************************************************************************)
(* Model of the xHCI host-controller driver, xhcid/src/xhci/mod.rs:        *)
(* Xhci::new (register mapping and reset handshake), Xhci::init (register  *)
(* programming and start) and Xhci::probe (per-port Enable-Slot and        *)
(* Address-Device).  The driver is one sequential thread; the controller   *)
(* is a second party that drives status bits and completes commands.       *)
(***************************************************************************)
EXTENDS Integers, Naturals, Sequences, FiniteSets, TLC

(* ------------------------------ bounds -------------------------------- *)

\* calls of init / probe made on a constructed instance
MaxCalls == 2
\* iterations of one poll loop that are told apart (then the count folds)
MaxSpin == 2
\* entries of the command ring and of the event ring
RingSize == 3

(* --------------------------- pure helpers ----------------------------- *)

Pow2(n) == 2 ^ n

\* a 32-bit register word, kept as its two 16-bit halves
Word(hi, lo) == [ hi |-> hi % Pow2(16), lo |-> lo % Pow2(16) ]

\* w >> 24, for a 32-bit word
Shr24(w) == w.hi \div Pow2(8)

\* parameter words the simulated capability block may hold:
\* 0x00010004, 0x0100A504, 0x02000020
ParamWords == { Word(1, 4), Word(256, 42244), Word(512, 32) }

MaxSlotsOfMut(w) == (w.lo \div 256) % 256
\* max_slots = (hcs_params1 & 0xFF) as u8
MaxSlotsOf(w) == w.lo % 256

MaxPortsOfMut(w) == w.hi % 256
\* max_ports = ((hcs_params1 & 0xFF000000) >> 24) as u8
MaxPortsOf(w) == Shr24(Word(w.hi - (w.hi % Pow2(8)), 0)) % 256

\* flag sets a port status register decodes to
PortFlagSets == { {}, {"PED"}, {"CCS", "PED"} }

ConnectedMut(flags) == flags # {}
\* flags.contains(port::PORT_CCS)
Connected(flags) == "CCS" \in flags

NullAddr == "null"

\* physical address of a DMA buffer
Physical(buf) == buf

SlotOfMut(control) == control.hi % 256
\* (event.control.read() >> 24) as u8
SlotOf(control) == Shr24(control) % 256

\* completion codes and slot ids a controller may report
CompletionCodes == { 1, 5 }
SlotIds == { 0, 1, 255 }
Success == 1

\* a command-completion event Trb as the controller writes it: completion
\* code in status bits 24-31, slot id in control bits 24-31, type 33, cycle
HwEvent(code, sid) ==
    [ status |-> Word(code * Pow2(8), 0),
      control |-> Word(sid * Pow2(8), 33 * Pow2(10) + 1) ]

CompletionCode(ev) == Shr24(ev.status) % 256

ZeroTrb == [ type |-> "none", slot |-> 0, ptr |-> NullAddr, cycle |-> FALSE ]

\* Trb::enable_slot(slot, cycle)
EnableSlot(s, cycle) ==
    [ type |-> "EnableSlot", slot |-> s, ptr |-> NullAddr, cycle |-> cycle ]

\* Trb::address_device(slot, input, cycle)
AddressDevice(s, in, cycle) ==
    [ type |-> "AddressDevice", slot |-> s, ptr |-> in, cycle |-> cycle ]

\* the input context probe builds for port p with transfer ring tr
InputContext(p, tr) ==
    [ add_context |-> 3,
      slot_a |-> Pow2(27),
      slot_b |-> ((p + 1) % 256) * Pow2(16),
      ep0_b |-> 4096 * Pow2(16) + 4 * 8 + 3 * 2,
      tr |-> Physical(tr) ]

NoInput == [ add_context |-> 0, slot_a |-> 0, slot_b |-> 0, ep0_b |-> 0,
             tr |-> NullAddr ]

\* one more iteration of a poll loop
Spun(n) == IF n >= MaxSpin THEN 1 ELSE n + 1

(* ------------------------------ state --------------------------------- *)

VARIABLES
    pc, ret, spin, calls, newResult, probeResult, init_max_slots, seen,
    usb_cmd, usb_sts, crr, dbPending, hcs_params1, portsc,
    config, dcbaap, crcr, ints0, dbs0, written,
    paramReads, max_slots, max_ports, ports_len, devices_len,
    live,
    cmd_trbs, cmd_i, cmd_cycle, event_i, event_cycle, eventHeld,
    i, slot, address, input, esCount, adCount, readCount, hwSlot, hwCode,
    cmdCount, evCount, dbCount, drainCount, cmdBase,
    initSteps, initCalls, firstInit, dev_ctx, addressed, handed, relCount,
    pstate

ctlv == << pc, ret, spin, calls, newResult, probeResult, init_max_slots, seen >>
hwv == << usb_cmd, usb_sts, crr, dbPending, hcs_params1, portsc >>
regv == << config, dcbaap, crcr, ints0, dbs0, written >>
geomv == << paramReads, max_slots, max_ports, ports_len, devices_len >>
ringv == << cmd_trbs, cmd_i, cmd_cycle, event_i, event_cycle, eventHeld >>
probev == << i, slot, address, input, esCount, adCount, readCount,
            hwSlot, hwCode >>
countv == << cmdCount, evCount, dbCount, drainCount, cmdBase >>

\* history of the run: what the current init has done, the registers after
\* the first init, the DeviceList entries, the slots whose Address-Device
\* has completed, the buffers whose address the controller was given, the
\* events released, and each port's addressing state
histv == << initSteps, initCalls, firstInit, dev_ctx, addressed, handed,
           relCount, pstate >>

vars == << ctlv, hwv, regv, geomv, live, ringv, probev, countv, histv >>

Init ==
    /\ pc = "n_wait_ready"
    /\ ret = "new"
    /\ spin = 0
    /\ calls = 0
    /\ newResult = "none"
    /\ probeResult = "none"
    /\ init_max_slots = 0
    /\ seen = {}
    /\ \E rs \in BOOLEAN :
          /\ usb_cmd = [ rs |-> rs, hcrst |-> FALSE ]
          /\ \E cnr \in BOOLEAN :
                usb_sts = [ cnr |-> cnr, hch |-> ~rs, b1 |-> FALSE ]
    /\ crr = FALSE
    /\ dbPending = FALSE
    /\ hcs_params1 \in ParamWords
    /\ portsc \in [ 0 .. MaxPortsOf(hcs_params1) - 1 -> PortFlagSets ]
    /\ config = 0
    /\ dcbaap = NullAddr
    /\ crcr = [ base |-> NullAddr, cycle |-> FALSE ]
    /\ ints0 = [ erstsz |-> 0, erdp |-> NullAddr, erstba |-> NullAddr ]
    /\ dbs0 = 0
    /\ written = {}
    /\ paramReads = 0
    /\ max_slots = 0
    /\ max_ports = 0
    /\ ports_len = 0
    /\ devices_len = 0
    /\ live = {}
    /\ cmd_trbs = [ k \in 0 .. RingSize - 1 |-> ZeroTrb ]
    /\ cmd_i = 0
    /\ cmd_cycle = TRUE
    /\ event_i = 0
    /\ event_cycle = TRUE
    /\ eventHeld = FALSE
    /\ i = 0
    /\ slot = 0
    /\ address = 0
    /\ input = NoInput
    /\ esCount = << >>
    /\ adCount = << >>
    /\ readCount = << >>
    /\ hwSlot = 0
    /\ hwCode = 0
    /\ cmdCount = 0
    /\ evCount = 0
    /\ dbCount = 0
    /\ drainCount = 0
    /\ cmdBase = 0
    /\ initSteps = {}
    /\ initCalls = 0
    /\ firstInit = [ done |-> FALSE, dcbaap |-> NullAddr,
                     crcr |-> [ base |-> NullAddr, cycle |-> FALSE ],
                     ints0 |-> [ erstsz |-> 0, erdp |-> NullAddr,
                                 erstba |-> NullAddr ],
                     live |-> {} ]
    /\ dev_ctx = << >>
    /\ addressed = {}
    /\ handed = {}
    /\ relCount = 0
    /\ pstate = << >>

(* ------------------------------ Xhci::new ----------------------------- *)

\* while op.usb_sts.readf(1 << 11) {}
NewWaitReady ==
    /\ pc = "n_wait_ready"
    /\ IF usb_sts.cnr
          THEN spin' = Spun(spin) /\ pc' = pc /\ seen' = seen
          ELSE spin' = 0 /\ pc' = "n_stop" /\ seen' = seen \cup { "ready" }
    /\ UNCHANGED << ret, calls, newResult, probeResult, init_max_slots >>
    /\ UNCHANGED << hwv, regv, geomv, live, ringv, probev, countv >>
    /\ UNCHANGED histv

\* op.usb_cmd.writef(1, false)
NewStop ==
    /\ pc = "n_stop"
    /\ usb_cmd' = [ usb_cmd EXCEPT !.rs = FALSE ]
    /\ pc' = "n_wait_halted"
    /\ UNCHANGED << ret, spin, calls, newResult, probeResult, init_max_slots, seen >>
    /\ UNCHANGED << usb_sts, crr, dbPending, hcs_params1, portsc >>
    /\ UNCHANGED << regv, geomv, live, ringv, probev, countv >>
    /\ UNCHANGED histv

\* while ! op.usb_sts.readf(1) {}
NewWaitHalted ==
    /\ pc = "n_wait_halted"
    /\ IF ~usb_sts.hch
          THEN spin' = Spun(spin) /\ pc' = pc /\ seen' = seen
          ELSE spin' = 0 /\ pc' = "n_reset" /\ seen' = seen \cup { "halted" }
    /\ UNCHANGED << ret, calls, newResult, probeResult, init_max_slots >>
    /\ UNCHANGED << hwv, regv, geomv, live, ringv, probev, countv >>
    /\ UNCHANGED histv

\* op.usb_cmd.writef(1 << 1, true)
NewReset ==
    /\ pc = "n_reset"
    /\ usb_cmd' = [ usb_cmd EXCEPT !.hcrst = TRUE ]
    /\ pc' = "n_wait_reset"
    /\ UNCHANGED << ret, spin, calls, newResult, probeResult, init_max_slots, seen >>
    /\ UNCHANGED << usb_sts, crr, dbPending, hcs_params1, portsc >>
    /\ UNCHANGED << regv, geomv, live, ringv, probev, countv >>
    /\ UNCHANGED histv

\* while op.usb_sts.readf(1 << 1) {}   (status bit 1, not the command bit)
NewWaitReset ==
    /\ pc = "n_wait_reset"
    /\ IF usb_sts.b1
          THEN spin' = Spun(spin) /\ pc' = pc /\ seen' = seen
          ELSE spin' = 0 /\ pc' = "n_read_params" /\ seen' = seen \cup { "reset" }
    /\ UNCHANGED << ret, calls, newResult, probeResult, init_max_slots >>
    /\ UNCHANGED << hwv, regv, geomv, live, ringv, probev, countv >>
    /\ UNCHANGED histv

NewReadParamsMut ==
    /\ pc = "n_read_params"
    /\ paramReads' = paramReads + 1
    /\ max_slots' = MaxSlotsOf(hcs_params1)
    /\ max_ports' = MaxPortsOf(hcs_params1)
    /\ ports_len' = IF MaxPortsOf(hcs_params1) = 0 THEN 1
                    ELSE MaxPortsOf(hcs_params1)
    /\ pc' = "n_alloc_devices"
    /\ UNCHANGED << ret, spin, calls, newResult, probeResult, init_max_slots, seen >>
    /\ UNCHANGED << devices_len >>
    /\ UNCHANGED << hwv, regv, live, ringv, probev, countv >>
    /\ UNCHANGED histv

\* let hcs_params1 = cap.hcs_params1.read(); max_slots, max_ports; the Port
\* slice of length max_ports
NewReadParams ==
    /\ pc = "n_read_params"
    /\ paramReads' = paramReads + 1
    /\ max_slots' = MaxSlotsOf(hcs_params1)
    /\ max_ports' = MaxPortsOf(hcs_params1)
    /\ ports_len' = MaxPortsOf(hcs_params1)
    /\ pc' = "n_alloc_devices"
    /\ UNCHANGED << ret, spin, calls, newResult, probeResult, init_max_slots, seen >>
    /\ UNCHANGED << devices_len >>
    /\ UNCHANGED << hwv, regv, live, ringv, probev, countv >>
    /\ UNCHANGED histv

\* devices: DeviceList::new(max_slots)?
NewAllocDevices ==
    /\ pc = "n_alloc_devices"
    /\ \E ok \in BOOLEAN :
          IF ok
             THEN /\ live' = live \cup { "devices" }
                  /\ devices_len' = max_slots
                  /\ pc' = "n_alloc_cmd"
                  /\ newResult' = newResult
             ELSE /\ live' = live
                  /\ devices_len' = devices_len
                  /\ pc' = "failed"
                  /\ newResult' = "Err"
    /\ UNCHANGED << ret, spin, calls, probeResult, init_max_slots, seen >>
    /\ UNCHANGED << paramReads, max_slots, max_ports, ports_len >>
    /\ UNCHANGED << hwv, regv, ringv, probev, countv >>
    /\ dev_ctx' = IF pc' = "n_alloc_cmd"
                   THEN [ s \in 0 .. max_slots - 1 |-> NullAddr ]
                   ELSE dev_ctx
    /\ UNCHANGED << initSteps, initCalls, firstInit, addressed, handed, relCount, pstate >>

NewAllocCmdMut ==
    /\ pc = "n_alloc_cmd"
    /\ \E ok \in BOOLEAN :
          IF ok
             THEN /\ live' = live \cup { "cmd_trbs", "event_trbs", "event_ste" }
                  /\ pc' = "i_config"
                  /\ init_max_slots' = max_slots
                  /\ ret' = "new"
                  /\ UNCHANGED << newResult, devices_len, crcr, written >>
             ELSE /\ live' = live \ { "devices" }
                  /\ devices_len' = 0
                  /\ crcr' = [ base |-> Physical("cmd_trbs"), cycle |-> TRUE ]
                  /\ written' = written \cup { "crcr" }
                  /\ pc' = "failed"
                  /\ newResult' = "Err"
                  /\ UNCHANGED << init_max_slots, ret >>
    /\ UNCHANGED << spin, calls, probeResult, seen >>
    /\ UNCHANGED << config, dcbaap, ints0, dbs0 >>
    /\ UNCHANGED << paramReads, max_slots, max_ports, ports_len >>
    /\ UNCHANGED << hwv, ringv, probev, countv >>
    /\ initSteps' = {}
    /\ initCalls' = IF pc' = "i_config" THEN initCalls + 1 ELSE initCalls
    /\ dev_ctx' = IF pc' = "failed" THEN << >> ELSE dev_ctx
    /\ UNCHANGED << firstInit, addressed, handed, relCount, pstate >>

\* cmd: CommandRing::new()?  then xhci.init(max_slots); on failure the
\* DeviceList built just before is dropped
NewAllocCmd ==
    /\ pc = "n_alloc_cmd"
    /\ \E ok \in BOOLEAN :
          IF ok
             THEN /\ live' = live \cup { "cmd_trbs", "event_trbs", "event_ste" }
                  /\ pc' = "i_config"
                  /\ init_max_slots' = max_slots
                  /\ ret' = "new"
                  /\ UNCHANGED << newResult, devices_len >>
             ELSE /\ live' = live \ { "devices" }
                  /\ devices_len' = 0
                  /\ pc' = "failed"
                  /\ newResult' = "Err"
                  /\ UNCHANGED << init_max_slots, ret >>
    /\ UNCHANGED << spin, calls, probeResult, seen >>
    /\ UNCHANGED << paramReads, max_slots, max_ports, ports_len >>
    /\ UNCHANGED << hwv, regv, ringv, probev, countv >>
    /\ initSteps' = {}
    /\ initCalls' = IF pc' = "i_config" THEN initCalls + 1 ELSE initCalls
    /\ dev_ctx' = IF pc' = "failed" THEN << >> ELSE dev_ctx
    /\ UNCHANGED << firstInit, addressed, handed, relCount, pstate >>

(* ------------------------------ Xhci::init ---------------------------- *)

InitConfigMut ==
    /\ pc = "i_config"
    /\ paramReads' = paramReads + 1
    /\ config' = MaxSlotsOf(hcs_params1)
    /\ written' = written \cup { "config" }
    /\ pc' = "i_dcbaap"
    /\ UNCHANGED << ret, spin, calls, newResult, probeResult, init_max_slots, seen >>
    /\ UNCHANGED << dcbaap, crcr, ints0, dbs0 >>
    /\ UNCHANGED << max_slots, max_ports, ports_len, devices_len >>
    /\ UNCHANGED << hwv, live, ringv, probev, countv >>
    /\ initSteps' = initSteps \cup { "config" }
    /\ UNCHANGED << initCalls, firstInit, dev_ctx, addressed, handed, relCount, pstate >>

\* self.op.config.write(max_slots as u32)
InitConfig ==
    /\ pc = "i_config"
    /\ config' = init_max_slots
    /\ written' = written \cup { "config" }
    /\ pc' = "i_dcbaap"
    /\ UNCHANGED << ret, spin, calls, newResult, probeResult, init_max_slots, seen >>
    /\ UNCHANGED << dcbaap, crcr, ints0, dbs0 >>
    /\ UNCHANGED << hwv, geomv, live, ringv, probev, countv >>
    /\ initSteps' = initSteps \cup { "config" }
    /\ UNCHANGED << initCalls, firstInit, dev_ctx, addressed, handed, relCount, pstate >>

InitDcbaapMut ==
    /\ pc = "i_dcbaap"
    /\ dcbaap' = Physical(IF initCalls = 1 THEN "devices" ELSE "devices2")
    /\ live' = live \cup { IF initCalls = 1 THEN "devices" ELSE "devices2" }
    /\ written' = written \cup { "dcbaap" }
    /\ pc' = "i_crcr"
    /\ UNCHANGED << ret, spin, calls, newResult, probeResult, init_max_slots, seen >>
    /\ UNCHANGED << config, crcr, ints0, dbs0 >>
    /\ UNCHANGED << hwv, geomv, ringv, probev, countv >>
    /\ initSteps' = initSteps \cup { "dcbaap" }
    /\ handed' = handed \cup { "devices" }
    /\ UNCHANGED << initCalls, firstInit, dev_ctx, addressed, relCount, pstate >>

\* self.op.dcbaap.write(self.devices.dcbaap())
InitDcbaap ==
    /\ pc = "i_dcbaap"
    /\ dcbaap' = Physical("devices")
    /\ written' = written \cup { "dcbaap" }
    /\ pc' = "i_crcr"
    /\ UNCHANGED << ret, spin, calls, newResult, probeResult, init_max_slots, seen >>
    /\ UNCHANGED << config, crcr, ints0, dbs0 >>
    /\ UNCHANGED << hwv, geomv, live, ringv, probev, countv >>
    /\ initSteps' = initSteps \cup { "dcbaap" }
    /\ handed' = handed \cup { "devices" }
    /\ UNCHANGED << initCalls, firstInit, dev_ctx, addressed, relCount, pstate >>

\* CommandRing::crcr(): the ring's physical base with the initial cycle bit
Crcr == [ base |-> Physical("cmd_trbs"), cycle |-> TRUE ]

\* self.op.crcr.write(self.cmd.crcr())
InitCrcr ==
    /\ pc = "i_crcr"
    /\ crcr' = Crcr
    /\ written' = written \cup { "crcr" }
    /\ pc' = "i_erstsz"
    /\ UNCHANGED << ret, spin, calls, newResult, probeResult, init_max_slots, seen >>
    /\ UNCHANGED << config, dcbaap, ints0, dbs0 >>
    /\ UNCHANGED << hwv, geomv, live, ringv, probev, countv >>
    /\ initSteps' = initSteps \cup { "crcr" }
    /\ handed' = handed \cup { "cmd_trbs" }
    /\ UNCHANGED << initCalls, firstInit, dev_ctx, addressed, relCount, pstate >>

\* self.run.ints[0].erstsz.write(1)
InitErstsz ==
    /\ pc = "i_erstsz"
    /\ ints0' = [ ints0 EXCEPT !.erstsz = 1 ]
    /\ written' = written \cup { "erstsz" }
    /\ pc' = "i_erdp"
    /\ UNCHANGED << ret, spin, calls, newResult, probeResult, init_max_slots, seen >>
    /\ UNCHANGED << config, dcbaap, crcr, dbs0 >>
    /\ UNCHANGED << hwv, geomv, live, ringv, probev, countv >>
    /\ initSteps' = initSteps \cup { "erstsz" }
    /\ UNCHANGED << initCalls, firstInit, dev_ctx, addressed, handed, relCount, pstate >>

\* self.run.ints[0].erdp.write(self.cmd.events.trbs.physical() as u64)
InitErdp ==
    /\ pc = "i_erdp"
    /\ ints0' = [ ints0 EXCEPT !.erdp = Physical("event_trbs") ]
    /\ written' = written \cup { "erdp" }
    /\ pc' = "i_erstba"
    /\ UNCHANGED << ret, spin, calls, newResult, probeResult, init_max_slots, seen >>
    /\ UNCHANGED << config, dcbaap, crcr, dbs0 >>
    /\ UNCHANGED << hwv, geomv, live, ringv, probev, countv >>
    /\ initSteps' = initSteps \cup { "erdp" }
    /\ handed' = handed \cup { "event_trbs" }
    /\ UNCHANGED << initCalls, firstInit, dev_ctx, addressed, relCount, pstate >>

\* self.run.ints[0].erstba.write(self.cmd.events.ste.physical() as u64)
InitErstba ==
    /\ pc = "i_erstba"
    /\ ints0' = [ ints0 EXCEPT !.erstba = Physical("event_ste") ]
    /\ written' = written \cup { "erstba" }
    /\ pc' = "i_start"
    /\ UNCHANGED << ret, spin, calls, newResult, probeResult, init_max_slots, seen >>
    /\ UNCHANGED << config, dcbaap, crcr, dbs0 >>
    /\ UNCHANGED << hwv, geomv, live, ringv, probev, countv >>
    /\ initSteps' = initSteps \cup { "erstba" }
    /\ handed' = handed \cup { "event_ste" }
    /\ UNCHANGED << initCalls, firstInit, dev_ctx, addressed, relCount, pstate >>

InitStartMut ==
    /\ pc = "i_erstba"
    /\ usb_cmd' = [ usb_cmd EXCEPT !.rs = TRUE ]
    /\ pc' = "i_wait_running"
    /\ UNCHANGED << ret, spin, calls, newResult, probeResult, init_max_slots, seen >>
    /\ UNCHANGED << usb_sts, crr, dbPending, hcs_params1, portsc >>
    /\ UNCHANGED << regv, geomv, live, ringv, probev, countv >>
    /\ initSteps' = initSteps \cup { "start" }
    /\ UNCHANGED << initCalls, firstInit, dev_ctx, addressed, handed, relCount, pstate >>

\* self.op.usb_cmd.writef(1, true)
InitStart ==
    /\ pc = "i_start"
    /\ usb_cmd' = [ usb_cmd EXCEPT !.rs = TRUE ]
    /\ pc' = "i_wait_running"
    /\ UNCHANGED << ret, spin, calls, newResult, probeResult, init_max_slots, seen >>
    /\ UNCHANGED << usb_sts, crr, dbPending, hcs_params1, portsc >>
    /\ UNCHANGED << regv, geomv, live, ringv, probev, countv >>
    /\ initSteps' = initSteps \cup { "start" }
    /\ UNCHANGED << initCalls, firstInit, dev_ctx, addressed, handed, relCount, pstate >>

InitWaitRunningMut ==
    /\ pc = "i_wait_running"
    /\ IF ~usb_sts.hch
          THEN spin' = Spun(spin) /\ pc' = pc
          ELSE spin' = 0 /\ pc' = "i_doorbell"
    /\ UNCHANGED << ret, calls, newResult, probeResult, init_max_slots, seen >>
    /\ UNCHANGED << hwv, regv, geomv, live, ringv, probev, countv >>
    /\ initSteps' = IF ~usb_sts.hch THEN initSteps
                     ELSE initSteps \cup { "running" }
    /\ UNCHANGED << initCalls, firstInit, dev_ctx, addressed, handed, relCount, pstate >>

\* while self.op.usb_sts.readf(1) {}
InitWaitRunning ==
    /\ pc = "i_wait_running"
    /\ IF usb_sts.hch
          THEN spin' = Spun(spin) /\ pc' = pc
          ELSE spin' = 0 /\ pc' = "i_doorbell"
    /\ UNCHANGED << ret, calls, newResult, probeResult, init_max_slots, seen >>
    /\ UNCHANGED << hwv, regv, geomv, live, ringv, probev, countv >>
    /\ initSteps' = IF usb_sts.hch THEN initSteps
                     ELSE initSteps \cup { "running" }
    /\ UNCHANGED << initCalls, firstInit, dev_ctx, addressed, handed, relCount, pstate >>

\* self.dbs[0].write(0); init returns, to new (which returns Ok(xhci)) or to
\* the caller
InitDoorbell ==
    /\ pc = "i_doorbell"
    /\ dbs0' = dbs0 + 1
    /\ dbPending' = TRUE
    /\ pc' = "idle"
    /\ newResult' = IF ret = "new" THEN "Ok" ELSE newResult
    /\ UNCHANGED << ret, spin, calls, probeResult, init_max_slots, seen >>
    /\ UNCHANGED << usb_cmd, usb_sts, crr, hcs_params1, portsc >>
    /\ UNCHANGED << config, dcbaap, crcr, ints0, written >>
    /\ UNCHANGED << geomv, live, ringv, probev, countv >>
    /\ initSteps' = initSteps \cup { "doorbell" }
    /\ firstInit' = IF firstInit.done THEN firstInit
                     ELSE [ done |-> TRUE, dcbaap |-> dcbaap, crcr |-> crcr,
                            ints0 |-> ints0, live |-> live ]
    /\ UNCHANGED << initCalls, dev_ctx, addressed, handed, relCount, pstate >>

\* max_slots arguments a caller passes to the public init
InitArgs == { 4, 255 }

\* a caller invokes xhci.init(m) on the constructed instance
CallInit ==
    /\ pc = "idle"
    /\ calls < MaxCalls
    /\ calls' = calls + 1
    /\ \E m \in InitArgs : init_max_slots' = m
    /\ ret' = "api"
    /\ pc' = "i_config"
    /\ UNCHANGED << spin, newResult, probeResult, seen >>
    /\ UNCHANGED << hwv, regv, geomv, live, ringv, probev, countv >>
    /\ initSteps' = {}
    /\ initCalls' = initCalls + 1
    /\ UNCHANGED << firstInit, dev_ctx, addressed, handed, relCount, pstate >>

(* ------------------------- command / event ring ----------------------- *)

\* the index after k, wrapping at the ring boundary
NextIndex(k) == IF k + 1 >= RingSize THEN 0 ELSE k + 1

\* the cycle state after leaving index k: toggled at the ring boundary
NextCycle(k, c) == IF k + 1 >= RingSize THEN ~c ELSE c

(* ------------------------------ Xhci::probe --------------------------- *)

\* a caller invokes xhci.probe()
CallProbe ==
    /\ pc = "idle"
    /\ calls < MaxCalls
    /\ calls' = calls + 1
    /\ probeResult' = "none"
    /\ pc' = "p_port"
    /\ i' = 0
    /\ esCount' = [ p \in 0 .. ports_len - 1 |-> 0 ]
    /\ adCount' = [ p \in 0 .. ports_len - 1 |-> 0 ]
    /\ readCount' = [ p \in 0 .. ports_len - 1 |-> 0 ]
    /\ cmdBase' = cmdCount
    /\ UNCHANGED << ret, spin, newResult, init_max_slots, seen >>
    /\ UNCHANGED << slot, address, input, hwSlot, hwCode >>
    /\ UNCHANGED << cmdCount, evCount, dbCount, drainCount >>
    /\ UNCHANGED << hwv, regv, geomv, live, ringv >>
    /\ pstate' = [ p \in 0 .. ports_len - 1 |-> "Disconnected" ]
    /\ UNCHANGED << initSteps, initCalls, firstInit, dev_ctx, addressed, handed, relCount >>

ProbePortMut ==
    /\ pc = "p_port"
    /\ IF i >= ports_len
          THEN /\ pc' = "idle"
               /\ probeResult' = "Ok"
               /\ i' = 0
               /\ UNCHANGED readCount
          ELSE /\ readCount' = [ readCount EXCEPT ![i] = @ + 1 ]
               /\ IF Connected(portsc[i])
                     THEN /\ pc' = "p_alloc_trbs"
                          /\ UNCHANGED << probeResult, i >>
                     ELSE /\ pc' = "p_port"
                          /\ i' = i + 1
                          /\ UNCHANGED probeResult
    /\ UNCHANGED << ret, spin, calls, newResult, init_max_slots, seen >>
    /\ UNCHANGED << slot, address, input, esCount, adCount, hwSlot, hwCode >>
    /\ UNCHANGED << hwv, regv, geomv, live, ringv, countv >>
    /\ pstate' = IF i < ports_len /\ Connected(portsc[i])
                  THEN [ pstate EXCEPT ![i] = "ConnectedUnaddressed" ]
                  ELSE pstate
    /\ UNCHANGED << initSteps, initCalls, firstInit, dev_ctx, addressed, handed, relCount >>

\* for (i, port) in self.ports.iter().enumerate(): read the port, test
\* flags.contains(port::PORT_CCS); after the last port, Ok(())
ProbePort ==
    /\ pc = "p_port"
    /\ IF i >= ports_len
          THEN /\ pc' = "idle"
               /\ probeResult' = "Ok"
               /\ i' = 0
               /\ UNCHANGED readCount
          ELSE /\ readCount' = [ readCount EXCEPT ![i] = @ + 1 ]
               /\ IF Connected(portsc[i])
                     THEN /\ pc' = "p_es_cmd"
                          /\ UNCHANGED << probeResult, i >>
                     ELSE /\ pc' = "p_port"
                          /\ i' = i + 1
                          /\ UNCHANGED probeResult
    /\ UNCHANGED << ret, spin, calls, newResult, init_max_slots, seen >>
    /\ UNCHANGED << slot, address, input, esCount, adCount, hwSlot, hwCode >>
    /\ UNCHANGED << hwv, regv, geomv, live, ringv, countv >>
    /\ pstate' = IF i < ports_len /\ Connected(portsc[i])
                  THEN [ pstate EXCEPT ![i] = "ConnectedUnaddressed" ]
                  ELSE pstate
    /\ UNCHANGED << initSteps, initCalls, firstInit, dev_ctx, addressed, handed, relCount >>

\* let cmd = self.cmd.next_cmd(); cmd.enable_slot(0, true)
ProbeEsCmd ==
    /\ pc = "p_es_cmd"
    /\ cmd_trbs' = [ cmd_trbs EXCEPT ![cmd_i] = EnableSlot(0, TRUE) ]
    /\ cmd_i' = NextIndex(cmd_i)
    /\ cmd_cycle' = NextCycle(cmd_i, cmd_cycle)
    /\ cmdCount' = cmdCount + 1
    /\ esCount' = [ esCount EXCEPT ![i] = @ + 1 ]
    /\ pc' = "p_es_db"
    /\ UNCHANGED << ret, spin, calls, newResult, probeResult, init_max_slots, seen >>
    /\ UNCHANGED << event_i, event_cycle, eventHeld >>
    /\ UNCHANGED << i, slot, address, input, adCount, readCount, hwSlot, hwCode >>
    /\ UNCHANGED << evCount, dbCount, drainCount, cmdBase >>
    /\ UNCHANGED << hwv, regv, geomv, live >>
    /\ UNCHANGED histv

\* run(): db.write(0)
RingDoorbell(here, next) ==
    /\ pc = here
    /\ dbs0' = dbs0 + 1
    /\ dbPending' = TRUE
    /\ dbCount' = dbCount + 1
    /\ pc' = next
    /\ UNCHANGED << ret, spin, calls, newResult, probeResult, init_max_slots, seen >>
    /\ UNCHANGED << usb_cmd, usb_sts, crr, hcs_params1, portsc >>
    /\ UNCHANGED << config, dcbaap, crcr, ints0, written >>
    /\ UNCHANGED << cmdCount, evCount, drainCount, cmdBase >>
    /\ UNCHANGED << geomv, live, ringv, probev >>
    /\ UNCHANGED histv

\* run(): while crcr.readf(1 << 3) {}; then cmd.reserved(false)
WaitCommand(here, next) ==
    /\ pc = here
    /\ IF crr
          THEN /\ spin' = Spun(spin)
               /\ pc' = pc
               /\ UNCHANGED drainCount
          ELSE /\ spin' = 0
               /\ pc' = next
               /\ drainCount' = drainCount + 1
    /\ UNCHANGED << ret, calls, newResult, probeResult, init_max_slots, seen >>
    /\ UNCHANGED << cmdCount, evCount, dbCount, cmdBase >>
    /\ UNCHANGED << hwv, regv, geomv, live, ringv, probev >>
    /\ UNCHANGED histv

ProbeEsDoorbell == RingDoorbell("p_es_db", "p_es_wait")

ProbeEsWaitMut == WaitCommand("p_es_wait", "p_alloc_trbs")
ProbeEsWait == WaitCommand("p_es_wait", "p_es_event")

\* let event = self.cmd.next_event(); slot = (event.control.read() >> 24) as u8
ProbeEsEvent ==
    /\ pc = "p_es_event"
    /\ \E code \in CompletionCodes, sid \in SlotIds :
          /\ slot' = SlotOf(HwEvent(code, sid).control)
          /\ hwSlot' = sid
          /\ hwCode' = code
    /\ eventHeld' = TRUE
    /\ event_i' = NextIndex(event_i)
    /\ event_cycle' = NextCycle(event_i, event_cycle)
    /\ evCount' = evCount + 1
    /\ pc' = "p_es_release"
    /\ UNCHANGED << ret, spin, calls, newResult, probeResult, init_max_slots, seen >>
    /\ UNCHANGED << cmd_trbs, cmd_i, cmd_cycle >>
    /\ UNCHANGED << i, address, input, esCount, adCount, readCount >>
    /\ UNCHANGED << cmdCount, dbCount, drainCount, cmdBase >>
    /\ UNCHANGED << hwv, regv, geomv, live >>
    /\ pstate' = [ pstate EXCEPT ![i] = "SlotEnabled" ]
    /\ UNCHANGED << initSteps, initCalls, firstInit, dev_ctx, addressed, handed, relCount >>

ProbeEsReleaseMut ==
    /\ pc = "p_es_release"
    /\ eventHeld' = FALSE
    /\ pc' = "p_alloc_trbs"
    /\ UNCHANGED << ret, spin, calls, newResult, probeResult, init_max_slots, seen >>
    /\ UNCHANGED << cmd_trbs, cmd_i, cmd_cycle, event_i, event_cycle >>
    /\ UNCHANGED << hwv, regv, geomv, live, probev, countv >>
    /\ relCount' = relCount + 1
    /\ dev_ctx' = IF slot \in DOMAIN dev_ctx
                   THEN [ dev_ctx EXCEPT ![slot] = Physical("devices") ]
                   ELSE dev_ctx
    /\ UNCHANGED << initSteps, initCalls, firstInit, addressed, handed, pstate >>

ProbeEsReleaseKeep ==
    /\ pc = "p_es_release"
    /\ eventHeld' = eventHeld
    /\ pc' = "p_alloc_trbs"
    /\ UNCHANGED << ret, spin, calls, newResult, probeResult, init_max_slots, seen >>
    /\ UNCHANGED << cmd_trbs, cmd_i, cmd_cycle, event_i, event_cycle >>
    /\ UNCHANGED << hwv, regv, geomv, live, probev, countv >>
    /\ relCount' = relCount
    /\ UNCHANGED << initSteps, initCalls, firstInit, dev_ctx, addressed, handed, pstate >>

\* event.reserved(false)
ProbeEsRelease ==
    /\ pc = "p_es_release"
    /\ eventHeld' = FALSE
    /\ pc' = "p_alloc_trbs"
    /\ UNCHANGED << ret, spin, calls, newResult, probeResult, init_max_slots, seen >>
    /\ UNCHANGED << cmd_trbs, cmd_i, cmd_cycle, event_i, event_cycle >>
    /\ UNCHANGED << hwv, regv, geomv, live, probev, countv >>
    /\ relCount' = relCount + 1
    /\ UNCHANGED << initSteps, initCalls, firstInit, dev_ctx, addressed, handed, pstate >>

\* probe returns Err: its locals are gone
ProbeFail ==
    /\ pc' = "idle"
    /\ probeResult' = "Err"
    /\ i' = 0
    /\ slot' = 0
    /\ address' = 0
    /\ input' = NoInput
    /\ hwSlot' = 0
    /\ hwCode' = 0

\* let mut trbs = Dma::<[trb::Trb; 256]>::zeroed()?
ProbeAllocTrbs ==
    /\ pc = "p_alloc_trbs"
    /\ \E ok \in BOOLEAN :
          IF ok
             THEN /\ live' = live \cup { "ep0_trbs" }
                  /\ pc' = "p_alloc_input"
                  /\ UNCHANGED << probeResult, i, slot, address, input,
                                  hwSlot, hwCode >>
             ELSE /\ live' = live
                  /\ ProbeFail
    /\ UNCHANGED << ret, spin, calls, newResult, init_max_slots, seen >>
    /\ UNCHANGED << esCount, adCount, readCount >>
    /\ UNCHANGED << hwv, regv, geomv, ringv, countv >>
    /\ UNCHANGED histv

\* let mut input = Dma::<device::InputContext>::zeroed()?
ProbeAllocInput ==
    /\ pc = "p_alloc_input"
    /\ \E ok \in BOOLEAN :
          IF ok
             THEN /\ live' = live \cup { "input" }
                  /\ pc' = "p_input_fill"
                  /\ UNCHANGED << probeResult, i, slot, address, input,
                                  hwSlot, hwCode >>
             ELSE /\ live' = live \ { "ep0_trbs" }
                  /\ ProbeFail
    /\ UNCHANGED << ret, spin, calls, newResult, init_max_slots, seen >>
    /\ UNCHANGED << esCount, adCount, readCount >>
    /\ UNCHANGED << hwv, regv, geomv, ringv, countv >>
    /\ UNCHANGED histv

\* input.add_context.write(..) .. input.device.endpoints[0].trl.write(..)
ProbeInputFill ==
    /\ pc = "p_input_fill"
    /\ input' = InputContext(i, "ep0_trbs")
    /\ pc' = "p_ad_cmd"
    /\ UNCHANGED << ret, spin, calls, newResult, probeResult, init_max_slots, seen >>
    /\ UNCHANGED << i, slot, address, esCount, adCount, readCount, hwSlot, hwCode >>
    /\ UNCHANGED << hwv, regv, geomv, live, ringv, countv >>
    /\ UNCHANGED histv

\* let cmd = self.cmd.next_cmd(); cmd.address_device(slot, input.physical(), true)
ProbeAdCmd ==
    /\ pc = "p_ad_cmd"
    /\ cmd_trbs' = [ cmd_trbs EXCEPT
                       ![cmd_i] = AddressDevice(slot, Physical("input"), TRUE) ]
    /\ cmd_i' = NextIndex(cmd_i)
    /\ cmd_cycle' = NextCycle(cmd_i, cmd_cycle)
    /\ cmdCount' = cmdCount + 1
    /\ adCount' = [ adCount EXCEPT ![i] = @ + 1 ]
    /\ pc' = "p_ad_db"
    /\ UNCHANGED << ret, spin, calls, newResult, probeResult, init_max_slots, seen >>
    /\ UNCHANGED << event_i, event_cycle, eventHeld >>
    /\ UNCHANGED << i, slot, address, input, esCount, readCount, hwSlot, hwCode >>
    /\ UNCHANGED << evCount, dbCount, drainCount, cmdBase >>
    /\ UNCHANGED << hwv, regv, geomv, live >>
    /\ handed' = handed \cup { "input", "ep0_trbs" }
    /\ UNCHANGED << initSteps, initCalls, firstInit, dev_ctx, addressed, relCount, pstate >>

ProbeAdDoorbell == RingDoorbell("p_ad_db", "p_ad_wait")

ProbeAdWait == WaitCommand("p_ad_wait", "p_ad_event")

\* let event = self.cmd.next_event(); address = (event.control.read() >> 24) as u8
ProbeAdEvent ==
    /\ pc = "p_ad_event"
    /\ \E code \in CompletionCodes, sid \in SlotIds :
          /\ address' = SlotOf(HwEvent(code, sid).control)
          /\ hwCode' = code
    /\ eventHeld' = TRUE
    /\ event_i' = NextIndex(event_i)
    /\ event_cycle' = NextCycle(event_i, event_cycle)
    /\ evCount' = evCount + 1
    /\ pc' = "p_ad_release"
    /\ UNCHANGED << ret, spin, calls, newResult, probeResult, init_max_slots, seen >>
    /\ UNCHANGED << cmd_trbs, cmd_i, cmd_cycle >>
    /\ UNCHANGED << i, slot, input, esCount, adCount, readCount, hwSlot >>
    /\ UNCHANGED << cmdCount, dbCount, drainCount, cmdBase >>
    /\ UNCHANGED << hwv, regv, geomv, live >>
    /\ addressed' = addressed \cup { slot }
    /\ pstate' = [ pstate EXCEPT ![i] = "Addressed" ]
    /\ UNCHANGED << initSteps, initCalls, firstInit, dev_ctx, handed, relCount >>

\* event.reserved(false); the block ends: input and trbs are dropped, the
\* loop moves to the next port
ProbeAdRelease ==
    /\ pc = "p_ad_release"
    /\ eventHeld' = FALSE
    /\ live' = live \ { "ep0_trbs", "input" }
    /\ i' = i + 1
    /\ slot' = 0
    /\ address' = 0
    /\ input' = NoInput
    /\ hwSlot' = 0
    /\ hwCode' = 0
    /\ pc' = "p_port"
    /\ UNCHANGED << ret, spin, calls, newResult, probeResult, init_max_slots, seen >>
    /\ UNCHANGED << cmd_trbs, cmd_i, cmd_cycle, event_i, event_cycle >>
    /\ UNCHANGED << esCount, adCount, readCount >>
    /\ UNCHANGED << hwv, regv, geomv, countv >>
    /\ relCount' = relCount + 1
    /\ UNCHANGED << initSteps, initCalls, firstInit, dev_ctx, addressed, handed, pstate >>

(* ---------------------------- the controller -------------------------- *)

\* the controller becomes ready
HwReady ==
    /\ usb_sts.cnr
    /\ usb_sts' = [ usb_sts EXCEPT !.cnr = FALSE ]
    /\ UNCHANGED << usb_cmd, crr, dbPending, hcs_params1, portsc >>
    /\ UNCHANGED << ctlv, regv, geomv, live, ringv, probev, countv >>
    /\ UNCHANGED histv

\* run/stop is 0: the controller halts
HwHalt ==
    /\ ~usb_cmd.rs
    /\ ~usb_sts.hch
    /\ usb_sts' = [ usb_sts EXCEPT !.hch = TRUE ]
    /\ UNCHANGED << usb_cmd, crr, dbPending, hcs_params1, portsc >>
    /\ UNCHANGED << ctlv, regv, geomv, live, ringv, probev, countv >>
    /\ UNCHANGED histv

\* run/stop is 1: the controller runs
HwRun ==
    /\ usb_cmd.rs
    /\ usb_sts.hch
    /\ usb_sts' = [ usb_sts EXCEPT !.hch = FALSE ]
    /\ UNCHANGED << usb_cmd, crr, dbPending, hcs_params1, portsc >>
    /\ UNCHANGED << ctlv, regv, geomv, live, ringv, probev, countv >>
    /\ UNCHANGED histv

\* a controller that shows a reset in progress in status bit 1
HwResetBusy ==
    /\ usb_cmd.hcrst
    /\ ~usb_sts.b1
    /\ usb_sts' = [ usb_sts EXCEPT !.b1 = TRUE ]
    /\ UNCHANGED << usb_cmd, crr, dbPending, hcs_params1, portsc >>
    /\ UNCHANGED << ctlv, regv, geomv, live, ringv, probev, countv >>
    /\ UNCHANGED histv

\* the reset completes: the controller clears the reset command bit
HwResetDone ==
    /\ usb_cmd.hcrst
    /\ usb_cmd' = [ usb_cmd EXCEPT !.hcrst = FALSE ]
    /\ usb_sts' = [ usb_sts EXCEPT !.b1 = FALSE ]
    /\ UNCHANGED << crr, dbPending, hcs_params1, portsc >>
    /\ UNCHANGED << ctlv, regv, geomv, live, ringv, probev, countv >>
    /\ UNCHANGED histv

\* doorbell 0 was rung: the command ring runs
HwCrrSet ==
    /\ dbPending
    /\ ~crr
    /\ crr' = TRUE
    /\ dbPending' = FALSE
    /\ UNCHANGED << usb_cmd, usb_sts, hcs_params1, portsc >>
    /\ UNCHANGED << ctlv, regv, geomv, live, ringv, probev, countv >>
    /\ UNCHANGED histv

\* the command ring has drained
HwCrrClear ==
    /\ crr
    /\ crr' = FALSE
    /\ UNCHANGED << usb_cmd, usb_sts, dbPending, hcs_params1, portsc >>
    /\ UNCHANGED << ctlv, regv, geomv, live, ringv, probev, countv >>
    /\ UNCHANGED histv

(* --------------------------- specifications --------------------------- *)

Driver ==
    \/ NewWaitReady \/ NewStop \/ NewWaitHalted \/ NewReset \/ NewWaitReset
    \/ NewReadParams \/ NewAllocDevices \/ NewAllocCmd
    \/ InitConfig \/ InitDcbaap \/ InitCrcr \/ InitErstsz \/ InitErdp
    \/ InitErstba \/ InitStart \/ InitWaitRunning \/ InitDoorbell
    \/ CallInit \/ CallProbe
    \/ ProbePort \/ ProbeEsCmd \/ ProbeEsDoorbell \/ ProbeEsWait
    \/ ProbeEsEvent \/ ProbeEsRelease \/ ProbeAllocTrbs \/ ProbeAllocInput
    \/ ProbeInputFill \/ ProbeAdCmd \/ ProbeAdDoorbell \/ ProbeAdWait
    \/ ProbeAdEvent \/ ProbeAdRelease

Controller ==
    \/ HwReady \/ HwHalt \/ HwRun \/ HwResetBusy \/ HwResetDone
    \/ HwCrrSet \/ HwCrrClear

Next == Driver \/ Controller

Spec == Init /\ [][Next]_vars

\* the driver thread keeps running; nothing is assumed of the controller
FairSpec == Init /\ [][Next]_vars /\ WF_vars(Driver)

(* -------------------------------- claims ------------------------------ *)

ProbePorts == 0 .. ports_len - 1

\* the Trb the last next_cmd returned
LastCmd == cmd_trbs[(cmd_i + RingSize - 1) % RingSize]

\* C1: during probe one command is outstanding at a time.  Commands
\* submitted minus events consumed is 0 or 1; a command Trb is obtained only
\* when every earlier command's event has been read and released; doorbell
\* 0 is written after the Trb is filled, the running bit is seen clear after
\* the doorbell, and only then is the one event read; the k-th event read
\* follows exactly k submitted commands.
OneCommandOutstanding ==
    /\ cmdCount - evCount \in { 0, 1 }
    /\ pc \in { "p_es_cmd", "p_ad_cmd" } =>
          /\ cmdCount = evCount
          /\ ~eventHeld
    /\ pc \in { "p_es_db", "p_ad_db" } =>
          /\ cmdCount = evCount + 1
          /\ dbCount = evCount
          /\ drainCount = evCount
    /\ pc \in { "p_es_wait", "p_ad_wait" } =>
          /\ cmdCount = evCount + 1
          /\ dbCount = cmdCount
          /\ drainCount = evCount
    /\ pc \in { "p_es_event", "p_ad_event" } =>
          /\ cmdCount = evCount + 1
          /\ dbCount = cmdCount
          /\ drainCount = cmdCount
    /\ eventHeld =>
          /\ evCount = cmdCount
          /\ dbCount = cmdCount
          /\ drainCount = cmdCount

\* the event of a command submitted after the ring has wrapped is held
OneCommandOutstandingWitness ==
    /\ eventHeld
    /\ pc = "p_ad_release"
    /\ evCount = cmdCount
    /\ cmdCount > RingSize

\* C2: the producer cycle bit flips once per full wrap of the enqueue index
\* and every command Trb in the ring carries the producer cycle state of the
\* moment it was written.
CommandCycleBits ==
    /\ cmd_cycle = (((cmdCount \div RingSize) % 2) = 0)
    /\ \A k \in 0 .. RingSize - 1 :
          cmd_trbs[k].type # "none" =>
             cmd_trbs[k].cycle = (IF k < cmd_i THEN cmd_cycle ELSE ~cmd_cycle)

\* C3: Enable-Slot is submitted with slot field 0, and the Address-Device
\* command of a port carries the slot id the controller put in bits 24-31
\* of the control word of that port's Enable-Slot completion; the decoding
\* returns S for every S in 0..255.
SlotRoundTrip ==
    /\ \A k \in 0 .. RingSize - 1 :
          cmd_trbs[k].type = "EnableSlot" => cmd_trbs[k].slot = 0
    /\ pc \in { "p_es_release", "p_alloc_trbs", "p_alloc_input",
                "p_input_fill", "p_ad_cmd" } => slot = hwSlot
    /\ pc \in { "p_ad_db", "p_ad_wait", "p_ad_event" } =>
          /\ LastCmd.type = "AddressDevice"
          /\ LastCmd.slot = hwSlot
    /\ pc = "p_es_event" =>
          \A s \in 0 .. 255 : \A c \in CompletionCodes :
             SlotOf(HwEvent(c, s).control) = s

\* an Address-Device command for slot 255 has been written
SlotRoundTripWitness ==
    /\ pc = "p_ad_db"
    /\ hwSlot = 255
    /\ LastCmd.type = "AddressDevice"
    /\ LastCmd.slot = 255

\* commands submitted in the current probe run
RunCommands == cmdCount - cmdBase

ConnectedPorts == { p \in ProbePorts : "CCS" \in portsc[p] }

ExactCommands ==
    /\ \A p \in ProbePorts :
          /\ esCount[p] = (IF "CCS" \in portsc[p] THEN 1 ELSE 0)
          /\ adCount[p] = (IF "CCS" \in portsc[p] THEN 1 ELSE 0)
    /\ RunCommands = 2 * Cardinality(ConnectedPorts)

StoppedAt(f) ==
    /\ "CCS" \in portsc[f]
    /\ esCount[f] = 1
    /\ adCount[f] = 0
    /\ \A p \in ProbePorts :
          /\ p < f => /\ esCount[p] = (IF "CCS" \in portsc[p] THEN 1 ELSE 0)
                      /\ adCount[p] = esCount[p]
                      /\ readCount[p] = 1
          /\ p > f => /\ esCount[p] = 0
                      /\ adCount[p] = 0
                      /\ readCount[p] = 0

FailedEnableSlotStops ==
    ( /\ pc \in { "p_es_release", "p_alloc_trbs", "p_alloc_input",
                  "p_input_fill", "p_ad_cmd", "p_ad_db" }
      /\ hwCode # Success ) => adCount[i] = 0

\* C6: a finished run of probe, failed or not, has read the status of every
\* port.
ProbeFailuresIsolated ==
    probeResult # "none" => \A p \in ProbePorts : readCount[p] >= 1

\* C7: every operation terminates whatever the controller does: the driver
\* is always eventually outside new, init and probe.
PollsBounded == []<>(pc \in { "idle", "failed" })

\* C8: when new fails on an allocation, no instance exists and none of
\* init's register writes has happened: enabled-slot count, device-context
\* pointer, command-ring control and interrupter registers unwritten,
\* run/stop not 1, doorbell 0 not rung.
AllocFailureBeforeInit ==
    newResult = "Err" =>
       /\ pc = "failed"
       /\ calls = 0
       /\ written = {}
       /\ config = 0
       /\ dcbaap = NullAddr
       /\ crcr.base = NullAddr
       /\ ints0 = [ erstsz |-> 0, erdp |-> NullAddr, erstba |-> NullAddr ]
       /\ ~usb_cmd.rs
       /\ dbs0 = 0
       /\ ~dbPending
       /\ live = {}

\* new failed after the parameter word was read
AllocFailureBeforeInitWitness ==
    /\ newResult = "Err"
    /\ pc = "failed"
    /\ paramReads = 1
    /\ ports_len = 2

\* C9: run/stop is cleared only once controller-not-ready was seen clear,
\* the reset bit is set only once halted was seen set, and the parameter
\* word is read only when the controller has cleared the reset command bit.
ResetHandshakeOrder ==
    [][ /\ (usb_cmd.rs /\ ~usb_cmd'.rs) => "ready" \in seen
        /\ (~usb_cmd.hcrst /\ usb_cmd'.hcrst) => "halted" \in seen
        /\ paramReads' # paramReads => ~usb_cmd.hcrst ]_vars

\* C10 as stated: after construction the enabled-slot count stays the
\* max_slots sampled by new, whatever init or probe calls follow.
EnabledSlotsNeverChange ==
    (newResult = "Ok" /\ pc \in { "idle", "p_port" }) =>
       config = hcs_params1.lo % 256

\* C10, amended: the parameter word is read exactly once, in new; the
\* DeviceList size and the port array length are its bits 0-7 and 24-31 and
\* no later init or probe changes them; the enabled-slot count register
\* holds the max_slots argument of the latest init call.
ParamsSampledOnce ==
    /\ paramReads <= 1
    /\ newResult = "Ok" =>
          /\ paramReads = 1
          /\ devices_len = hcs_params1.lo % 256
          /\ ports_len = hcs_params1.hi \div 256
          /\ max_slots = devices_len
          /\ max_ports = ports_len
          /\ pc # "i_config" => config = init_max_slots

\* a later init call has left an enabled-slot count other than max_slots
ParamsSampledOnceWitness ==
    /\ newResult = "Ok"
    /\ pc = "idle"
    /\ calls = 2
    /\ paramReads = 1
    /\ config # devices_len

\* the first two orderings of the reset handshake, on their own
StopAndResetOrder ==
    [][ /\ (pc = "n_stop" /\ pc' # pc) => "ready" \in seen
        /\ (~usb_cmd.hcrst /\ usb_cmd'.hcrst) => "halted" \in seen ]_vars

\* positions inside init and inside probe
InitPcs == { "i_config", "i_dcbaap", "i_crcr", "i_erstsz", "i_erdp",
             "i_erstba", "i_start", "i_wait_running", "i_doorbell" }

ProbePcs == { "p_port", "p_es_cmd", "p_es_db", "p_es_wait", "p_es_event",
              "p_es_release", "p_alloc_trbs", "p_alloc_input",
              "p_input_fill", "p_ad_cmd", "p_ad_db", "p_ad_wait",
              "p_ad_event", "p_ad_release" }

\* allocations succeed: neither new nor probe returns an error
AllocationsSucceed == newResult' # "Err" /\ probeResult' # "Err"

\* the driver thread keeps running, allocations succeed, and the controller
\* conforms: it becomes ready, halts after run/stop = 0, completes the
\* reset, runs after run/stop = 1 and drains the command ring
LiveSpec ==
    /\ Init
    /\ [][Next /\ AllocationsSucceed]_vars
    /\ WF_vars(Driver /\ AllocationsSucceed)
    /\ WF_vars(HwReady)
    /\ WF_vars(HwHalt)
    /\ WF_vars(HwRun)
    /\ WF_vars(HwResetDone)
    /\ WF_vars(HwCrrClear)

\* C11: in each init the enabled-slot count, the device-context-array
\* pointer, the command-ring control register and interrupter 0's
\* segment-table size (1), dequeue pointer and segment-table base are written
\* before run/stop is set; the doorbell is rung only after halted was seen
\* clear after that write, and once per init.
InitWriteOrder ==
    /\ "start" \in initSteps =>
          /\ { "config", "dcbaap", "crcr", "erstsz", "erdp", "erstba" }
                \subseteq initSteps
          /\ config = init_max_slots
          /\ dcbaap = "devices"
          /\ crcr.base = "cmd_trbs"
          /\ ints0 = [ erstsz |-> 1, erdp |-> "event_trbs",
                       erstba |-> "event_ste" ]
          /\ usb_cmd.rs
    /\ (ret = "new" /\ pc \in InitPcs /\ "start" \notin initSteps) =>
          ~usb_cmd.rs
    /\ "running" \in initSteps => "start" \in initSteps
    /\ "doorbell" \in initSteps => "running" \in initSteps
    /\ pc \in InitPcs => "doorbell" \notin initSteps
    /\ dbs0 = dbCount + initCalls - (IF pc \in InitPcs THEN 1 ELSE 0)

\* a second init, after probe has submitted commands, has rung the doorbell
InitWriteOrderWitness ==
    /\ initCalls = 2
    /\ pc = "idle"
    /\ "doorbell" \in initSteps
    /\ cmdCount > 0
    /\ dbs0 = dbCount + 2

\* C12: from the end of the first init on, the device-context-array
\* pointer, the command-ring control register and interrupter 0's registers
\* keep the values the first init left, through and after every later init,
\* and init allocates no buffer.
InitIdempotent ==
    firstInit.done =>
       /\ dcbaap = firstInit.dcbaap
       /\ crcr = firstInit.crcr
       /\ ints0 = firstInit.ints0
       /\ pc \in InitPcs \cup { "idle" } => live = firstInit.live

\* init was called again with the same max_slots after probe commands
InitIdempotentWitness ==
    /\ firstInit.done
    /\ initCalls = 2
    /\ pc = "idle"
    /\ "doorbell" \in initSteps
    /\ init_max_slots = devices_len
    /\ cmdCount > 0

\* C13 as stated: parameter word 0x00010004 gives max_slots 4 and
\* max_ports 1, a Port array of length 1.
ParamWordScenario ==
    (hcs_params1 = Word(1, 4) /\ paramReads = 1) =>
       /\ max_slots = 4
       /\ max_ports = 1
       /\ ports_len = 1

\* C13, amended: parameter word 0x00010004 gives max_slots 4 and
\* max_ports 0 (bits 24-31 are 0): the Port array is empty and the
\* DeviceList has 4 entries.
ParamWordScenarioZeroPorts ==
    (hcs_params1 = Word(1, 4) /\ paramReads = 1) =>
       /\ max_slots = 4
       /\ max_ports = 0
       /\ ports_len = 0
       /\ "devices" \in live =>
             /\ devices_len = 4
             /\ DOMAIN dev_ctx = 0 .. 3

\* construction ended with parameter word 0x00010004
ParamWordScenarioWitness ==
    /\ hcs_params1 = Word(1, 4)
    /\ newResult = "Ok"
    /\ devices_len = 4
    /\ ports_len = 0

\* C14: max_slots is bits 0-7 and max_ports bits 24-31 of the parameter
\* word, for every word built from a port count, a slot count and any bits
\* in between; the Port array has max_ports entries and the init of the
\* construction writes max_slots to the enabled-slot count.
ParamDecode ==
    /\ paramReads = 1 =>
          /\ max_slots = hcs_params1.lo % 256
          /\ max_ports = hcs_params1.hi \div 256
          /\ ports_len = max_ports
    /\ (ret = "new" /\ "config" \in initSteps) =>
          config = hcs_params1.lo % 256
    /\ pc = "n_read_params" =>
          \A ports \in 0 .. 255 : \A slots \in { 0, 1, 4, 128, 255 } :
             \A mid \in { 0, 1, 165, 255 } :
                /\ MaxSlotsOf(Word(ports * 256 + mid, mid * 256 + slots))
                      = slots
                /\ MaxPortsOf(Word(ports * 256 + mid, mid * 256 + slots))
                      = ports

\* construction ended with parameter word 0x0100A504
ParamDecodeWitness ==
    /\ hcs_params1 = Word(256, 42244)
    /\ newResult = "Ok"
    /\ calls = 0
    /\ config = 4
    /\ ports_len = 1

\* C15: with max_ports = 0 the port list is empty and probe issues nothing:
\* no command Trb, no doorbell write by probe, no event consumed, and it
\* never fails.
ZeroPortsNoCommands ==
    (hcs_params1.hi \div 256 = 0 /\ paramReads = 1) =>
       /\ ports_len = 0
       /\ cmdCount = 0
       /\ dbCount = 0
       /\ evCount = 0
       /\ dbs0 <= initCalls
       /\ probeResult # "Err"
       /\ pc \in ProbePcs => pc = "p_port"

\* probe returned Ok on an instance without ports
ZeroPortsNoCommandsWitness ==
    /\ ports_len = 0
    /\ probeResult = "Ok"
    /\ pc = "idle"
    /\ cmdCount = 0

HandedBuffersStayLive == handed \subseteq live

\* C18: an event Trb is released right after its field is read: at most one
\* is held, only between the read and the release, never when the next
\* command Trb is obtained or the next event is read.
EventReleasedAtOnce ==
    /\ evCount - relCount \in { 0, 1 }
    /\ eventHeld <=> (evCount - relCount = 1)
    /\ eventHeld => pc \in { "p_es_release", "p_ad_release" }
    /\ pc \in { "p_es_release", "p_ad_release" } => eventHeld

\* the second event of a port is held, the first was released
EventReleasedAtOnceWitness ==
    /\ pc = "p_ad_release"
    /\ eventHeld
    /\ evCount = 2
    /\ relCount = 1

Forward == { << "Disconnected", "ConnectedUnaddressed" >>,
             << "ConnectedUnaddressed", "SlotEnabled" >>,
             << "SlotEnabled", "Addressed" >> }

Intermediate == { "ConnectedUnaddressed", "SlotEnabled" }

PortOrder ==
    \A p \in DOMAIN pstate :
       /\ readCount[p] <= 1
       /\ pstate[p] # "Disconnected" =>
             /\ readCount[p] = 1
             /\ "CCS" \in portsc[p]
       /\ readCount[p] = 1 =>
             \A q \in DOMAIN pstate :
                q < p => /\ readCount[q] = 1
                         /\ pstate[q] \in { "Disconnected", "Addressed" }

PortStep ==
    \/ pc = "idle" /\ pc' = "p_port"
    \/ \A p \in DOMAIN pstate :
          \/ pstate'[p] = pstate[p]
          \/ << pstate[p], pstate'[p] >> \in Forward

BringUpAndProbeTerminate ==
    /\ <>(newResult = "Ok")
    /\ [](newResult = "Ok" => usb_cmd.rs)
    /\ [](pc \in ProbePcs => <>(pc = "idle" /\ probeResult = "Ok"))

\* a probe over two connected ports has returned Ok
BringUpAndProbeTerminateWitness ==
    /\ newResult = "Ok"
    /\ usb_cmd.rs
    /\ pc = "idle"
    /\ probeResult = "Ok"
    /\ cmdCount - cmdBase = 4

====
